---------------------------- MODULE Spec2Model ----------------------------
(***************************************************************************)
(* A model of the image compositing core of ebiten: the sparse store of   *)
(* pixel patches (rectToPixels), the mipmap pyramid (mipmap) and the      *)
(* shared vertex buffer (verticesBackend).                                *)
(***************************************************************************)
EXTENDS Integers, Sequences, FiniteSets, TLC

VARIABLES
    rtpM,         \* rectToPixels.m: the stored rectangles and their patches
    rtpNil,       \* rectToPixels.m == nil
    rtpLast,      \* rectToPixels.last
    rtpRes,       \* the last call on the store and what it returned
    rtpAdded      \* the rectangle and patch of the latest successful addOrReplace
                  \* (a set of at most one), until the next addOrReplace or remove call

VARIABLES
    mipImgs,      \* mipmap.imgs of each pyramid: rectangle -> level -> derived image
    mipOrig,      \* mipmap.orig of each pyramid: the base image, or nil
    mipRes        \* the last call on a pyramid and what it did

VARIABLES
    vbBackend,    \* verticesBackend.backend: the current buffer (id 0: nil) and its length
    vbHead,       \* verticesBackend.head
    vbHolder,     \* verticesBackend.m: the goroutine holding the mutex, or 0
    vbPc,         \* where each goroutine is in slice
    vbN,          \* the argument n of each goroutine's call
    vbS,          \* the local s of each goroutine's call
    vbEntry,      \* the backend and head each goroutine found when it took the mutex
    vbMade,       \* the number of buffers made so far
    vbCalls,      \* the number of calls of slice so far
    vbWindows     \* the slices returned so far

VARIABLES
    fnRes         \* the last call of a function of the package and what it returned

rtpVars == <<rtpM, rtpNil, rtpLast, rtpRes, rtpAdded>>

mipVars == <<mipImgs, mipOrig, mipRes>>

vbVars == <<vbBackend, vbHead, vbHolder, vbPc, vbN, vbS, vbEntry, vbMade, vbCalls,
            vbWindows>>

fnVars == <<fnRes>>

vars == <<fnRes, rtpM, rtpNil, rtpLast, rtpRes, rtpAdded, mipImgs, mipOrig, mipRes,
          vbBackend, vbHead, vbHolder, vbPc, vbN, vbS, vbEntry, vbMade, vbCalls,
          vbWindows>>

-----------------------------------------------------------------------------
(* Bounds of the pixel patch store. *)

\* Widths of the rectangles written range over 0..MaxDim (0: an empty rectangle).
MaxDim == 2
\* The store holds at most MaxRects rectangles.
MaxRects == 2

\* The origins (x, y) of the rectangles written.
Origins == {<<0, 1>>, <<1, 1>>}
Widths == 0..MaxDim
\* The heights of the rectangles written.
Heights == {2}
\* Two patches written to the same rectangle differ by their tag.
Tags == {1, 2}
\* The patch lengths tried for a rectangle: the length addOrReplace asks for,
\* three bytes a pixel instead of four, and one pixel too many.
PatchLens(width, height) == {4 * width * height, 3 * width * height, 4 * width * height + 4}
\* The points queried: those of the rectangles written, and a margin.
Points == {[X |-> i, Y |-> j] : i \in 0..(MaxDim + 1), j \in 0..2}

-----------------------------------------------------------------------------
(* image.Rectangle and image.Point, as rectToPixels uses them. *)

\* image.Rect: the rectangle with the corners ordered.
Rect(x0, y0, x1, y1) ==
    [Min |-> [X |-> IF x0 > x1 THEN x1 ELSE x0, Y |-> IF y0 > y1 THEN y1 ELSE y0],
     Max |-> [X |-> IF x0 > x1 THEN x0 ELSE x1, Y |-> IF y0 > y1 THEN y0 ELSE y1]]

\* The zero image.Rectangle: the value of rectToPixels.last before any at.
ZR == Rect(0, 0, 0, 0)

Dx(r) == r.Max.X - r.Min.X

Dy(r) == r.Max.Y - r.Min.Y

Empty(r) == r.Min.X >= r.Max.X \/ r.Min.Y >= r.Max.Y

Overlaps(r, s) ==
    /\ ~Empty(r)
    /\ ~Empty(s)
    /\ r.Min.X < s.Max.X /\ s.Min.X < r.Max.X
    /\ r.Min.Y < s.Max.Y /\ s.Min.Y < r.Max.Y

In(p, r) ==
    /\ r.Min.X <= p.X /\ p.X < r.Max.X
    /\ r.Min.Y <= p.Y /\ p.Y < r.Max.Y

\* The patch of n bytes a caller passes: byte k (from 0) of the patch tagged t.
Patch(t, n) == [k \in 1..n |-> (100 * t + (k - 1)) % 256]

-----------------------------------------------------------------------------
(* rectToPixels.addOrReplace *)

\* The length check of addOrReplace.
BadLenMut(pixels, width, height) == FALSE
BadLen(pixels, width, height) == Len(pixels) # 4 * width * height

\* The rectangles of the map on which the loop of addOrReplace panics when
\* it meets them: those that overlap newr and are not newr.
ConflictsMut(mm, newr) == {}
Conflicts(mm, newr) == {r \in DOMAIN mm : r # newr /\ Overlaps(r, newr)}

\* The outcomes of addOrReplace on the map mm: the loop ranges over the map
\* in an unspecified order, and ends at the first rectangle that is newr
\* (replace) or that overlaps it (panic).
AddOutcomes(mm, pixels, x, y, width, height) ==
    LET newr == Rect(x, y, x + width, y + height)
        copied == pixels
    IN  {[panicked |-> FALSE, m |-> [mm EXCEPT ![r] = copied]] : r \in {newr} \cap DOMAIN mm}
        \cup {[panicked |-> TRUE, m |-> mm] : r \in Conflicts(mm, newr)}
        \cup IF newr \notin DOMAIN mm /\ Conflicts(mm, newr) = {}
             THEN {[panicked |-> FALSE, m |-> [r \in DOMAIN mm \cup {newr} |->
                                                IF r = newr THEN copied ELSE mm[r]]]}
             ELSE {}

AddOrReplace(t, n, x, y, width, height) ==
    LET pixels == Patch(t, n)
        call == [op |-> "addOrReplace", x |-> x, y |-> y, width |-> width,
                 height |-> height, len |-> n]
    IN  /\ UNCHANGED <<mipVars, vbVars, fnVars>>
        /\ IF BadLen(pixels, width, height)
           THEN /\ rtpRes' = [call |-> call, panicked |-> TRUE]
                /\ rtpAdded' = {}
                /\ UNCHANGED <<rtpM, rtpNil, rtpLast>>
           ELSE \E o \in AddOutcomes(rtpM, pixels, x, y, width, height) :
                   /\ Cardinality(DOMAIN o.m) <= MaxRects
                   /\ rtpNil' = FALSE
                   /\ rtpM' = o.m
                   /\ rtpRes' = [call |-> call, panicked |-> o.panicked]
                   /\ rtpAdded' = IF o.panicked THEN {}
                                  ELSE {[r |-> Rect(x, y, x + width, y + height),
                                         pixels |-> pixels, x |-> x, y |-> y,
                                         width |-> width, height |-> height]}
                   /\ UNCHANGED rtpLast

-----------------------------------------------------------------------------
(* rectToPixels.remove *)

\* What remove does to the last-used rectangle: nothing.
LastAfterRemove(lastr, newr) == lastr

Remove(x, y, width, height) ==
    LET newr == Rect(x, y, x + width, y + height)
        call == [op |-> "remove", x |-> x, y |-> y, width |-> width, height |-> height]
    IN  /\ rtpRes' = [call |-> call, panicked |-> FALSE]
        /\ rtpAdded' = {}
        /\ IF rtpNil
           THEN UNCHANGED <<rtpM, rtpNil, rtpLast>>
           ELSE /\ rtpM' = [r \in DOMAIN rtpM \ {newr} |-> rtpM[r]]
                /\ rtpLast' = LastAfterRemove(rtpLast, newr)
                /\ UNCHANGED rtpNil
        /\ UNCHANGED <<mipVars, vbVars, fnVars>>

-----------------------------------------------------------------------------
(* rectToPixels.at *)

\* The index into the patch of r of the pixel (i, j).
PixIdx(r, i, j) == 4 * ((j - r.Min.Y) * Dx(r) + (i - r.Min.X))

\* The return of at once it has chosen the rectangle r: the four bytes of the
\* patch stored for r from PixIdx on; an index out of the patch's range (the
\* patch of a rectangle that is not in the map is nil) is a run-time panic.
\* hit is the rectangle whose patch was read.
AtReturn(mm, r, i, j) ==
    LET pix == IF r \in DOMAIN mm THEN mm[r] ELSE <<>>
        idx == PixIdx(r, i, j)
    IN  IF idx < 0 \/ idx + 3 >= Len(pix)
        THEN [panicked |-> TRUE, found |-> FALSE, px |-> <<>>, hit |-> {r}]
        ELSE [panicked |-> FALSE, found |-> TRUE, hit |-> {r},
              px |-> <<pix[idx + 1], pix[idx + 2], pix[idx + 3], pix[idx + 4]>>]

NotFound == [panicked |-> FALSE, found |-> FALSE, px |-> <<0, 0, 0, 0>>, hit |-> {}]

\* The rectangles the scan of at may stop at.
ScanHitsMut(mm, pt) == DOMAIN mm
ScanHits(mm, pt) == {rr \in DOMAIN mm : In(pt, rr)}

\* The outcomes of at(i, j): the return value and the last-used rectangle.
AtOutcomes(isNil, mm, lastr, i, j) ==
    LET pt == [X |-> i, Y |-> j]
    IN  IF isNil
        THEN {[ret |-> NotFound, last |-> lastr]}
        ELSE IF In(pt, lastr)
        THEN {[ret |-> AtReturn(mm, lastr, i, j), last |-> lastr]}
        ELSE IF ScanHits(mm, pt) = {}
        THEN {[ret |-> NotFound, last |-> lastr]}
        ELSE {[ret |-> AtReturn(mm, rr, i, j), last |-> rr] : rr \in ScanHits(mm, pt)}

At(i, j) ==
    \E o \in AtOutcomes(rtpNil, rtpM, rtpLast, i, j) :
        /\ rtpLast' = o.last
        /\ rtpRes' = [call |-> [op |-> "at", i |-> i, j |-> j],
                      panicked |-> o.ret.panicked, found |-> o.ret.found,
                      px |-> o.ret.px, hit |-> o.ret.hit]
        /\ UNCHANGED <<rtpM, rtpNil, rtpAdded>>
        /\ UNCHANGED <<mipVars, vbVars, fnVars>>

-----------------------------------------------------------------------------
(* The pixel patch store under any sequence of calls. *)

RtpInit ==
    /\ rtpM = <<>>
    /\ rtpNil = TRUE
    /\ rtpLast = ZR
    /\ rtpRes = [call |-> [op |-> "none"], panicked |-> FALSE]
    /\ rtpAdded = {}

RtpNext ==
    \/ \E t \in Tags, o \in Origins, width \in Widths, height \in Heights :
          \E n \in PatchLens(width, height) :
             AddOrReplace(t, n, o[1], o[2], width, height)
    \/ \E o \in Origins, width \in Widths, height \in Heights :
          Remove(o[1], o[2], width, height)
    \/ \E p \in Points : At(p.X, p.Y)

-----------------------------------------------------------------------------
(* Numbers of the transforms: float32 values as exact fractions <<n, d>>,  *)
(* d > 0. The values used are powers of two and small sums of them, which  *)
(* float32 holds exactly.                                                  *)

RECURSIVE Gcd(_, _)
Gcd(x, y) == IF y = 0 THEN x ELSE Gcd(y, x % y)

Abs(n) == IF n < 0 THEN -n ELSE n

Frac(n, d) == LET g == Gcd(Abs(n), d) IN <<n \div g, d \div g>>

FAdd(x, y) == Frac(x[1] * y[2] + y[1] * x[2], x[2] * y[2])

FSub(x, y) == Frac(x[1] * y[2] - y[1] * x[2], x[2] * y[2])

FMul(x, y) == Frac(x[1] * y[1], x[2] * y[2])

FLt(x, y) == x[1] * y[2] < y[1] * x[2]

FGe(x, y) == ~FLt(x, y)

FAbs(x) == <<Abs(x[1]), x[2]>>

FZero == <<0, 1>>

\* The transforms drawn: a, b, c, d of GeoM.elements (the translation plays
\* no part in the level); nan: an element is NaN; exp: every element is the
\* fraction given times 2^-exp.
Geom(a, b, c, d) == [a |-> a, b |-> b, c |-> c, d |-> d, nan |-> FALSE, exp |-> 0]

GIdentity == Geom(<<1, 1>>, FZero, FZero, <<1, 1>>)
\* Determinant 0: 2*2 - 1*4.
GSingular == Geom(<<2, 1>>, <<1, 1>>, <<4, 1>>, <<2, 1>>)
GNaN == [a |-> FZero, b |-> FZero, c |-> FZero, d |-> FZero, nan |-> TRUE, exp |-> 0]
\* A quarter turn scaled by 1/4: determinant 1/16.
GQuarter == Geom(FZero, <<-1, 4>>, <<1, 4>>, FZero)
\* A mirror scaled by 2^-8: determinant -2^-16.
GTiny == Geom(<<-1, 256>>, FZero, FZero, <<1, 256>>)
\* Scaled by 128 and by 2^15.
GBig == Geom(<<128, 1>>, FZero, FZero, <<128, 1>>)
GHuge == Geom(<<32768, 1>>, FZero, FZero, <<32768, 1>>)
\* Scaled by 2^-65: the determinant, 2^-130, is a float32 that is not 0.
GMinute == [GIdentity EXCEPT !.exp = 65]

Geoms == {GIdentity, GSingular, GNaN, GQuarter, GTiny, GBig, GHuge}

\* driver.FilterNearest and driver.FilterLinear.
Filters == {"FilterNearest", "FilterLinear"}

\* GeoM.det, without the factor 4^-exp.
Det(geom) == FSub(FMul(geom.a, geom.d), FMul(geom.b, geom.c))

-----------------------------------------------------------------------------
(* The pyramids. *)

\* Pyramid 1 is newMipmap(w, h, false), pyramid 2 is newMipmap(w, h, true).
Pyramids == {1, 2}

Volatile(p) == p = 2

\* The source bounds drawn: a 128 x 128 rectangle and an empty one.
Bounds == {Rect(0, 0, 128, 128), Rect(0, 0, 0, 3)}

\* level is called directly with the levels -MaxLevel..MaxLevel.
MaxLevel == 1

\* An entry of a levelToImage map: a derived image of w x h pixels, or nil.
Image(w, h) == [img |-> TRUE, w |-> w, h |-> h]

NilImage == [img |-> FALSE, w |-> 0, h |-> 0]

\* mipmap.orig, as the source of a derivation.
Orig == [img |-> TRUE, w |-> 0, h |-> 0]

\* The empty levelToImage map and the empty map of a pyramid.
NoLevels == [l \in {} |-> NilImage]

NoImgs == [r \in {} |-> NoLevels]

\* The keys <<rectangle, level>> of the cache imgs, those of its images and
\* those of its nil entries.
Keys(imgs) == UNION {{<<r, l>> : l \in DOMAIN imgs[r]} : r \in DOMAIN imgs}

ImageKeys(imgs) == {k \in Keys(imgs) : imgs[k[1]][k[2]].img}

NilKeys(imgs) == {k \in Keys(imgs) : ~imgs[k[1]][k[2]].img}

-----------------------------------------------------------------------------
(* sizeForLevel *)

HalveMut(width, height, n) == [w |-> width \div 2, h |-> height \div 2]
RECURSIVE Halve(_, _, _)
Halve(width, height, n) ==
    IF n = 0 THEN [w |-> width, h |-> height]
    ELSE IF width \div 2 = 0 \/ height \div 2 = 0 THEN [w |-> 0, h |-> 0]
    ELSE Halve(width \div 2, height \div 2, n - 1)

RECURSIVE Double(_, _, _)
Double(width, height, n) ==
    IF n = 0 THEN [w |-> width, h |-> height]
    ELSE Double(width * 2, height * 2, n - 1)

SizeForLevel(origWidth, origHeight, level) ==
    IF level > 0 THEN Halve(origWidth, origHeight, level)
    ELSE Double(origWidth, origHeight, -level)

-----------------------------------------------------------------------------
(* mipmap.level *)

\* The map imgs with the entry e stored for (r, level).
Store(imgs, r, level, e) ==
    [imgs EXCEPT ![r] = (level :> e) @@ imgs[r]]

\* Whether a lookup of level in the levelToImage map lv hits.
CachedMut(lv, level) == FALSE
Cached(lv, level) == level \in DOMAIN lv

\* The end of level, once the image the level is drawn from is known: pre
\* is the outcome of getting it. A nil source or a size of zero stores nil;
\* otherwise a new image is allocated and the level is drawn into it.
LevelFromMut(pre, r, level, sz) ==
    [imgs |-> Store(pre.imgs, r, level, Image(sz.w, sz.h)), ret |-> Image(sz.w, sz.h),
     allocs |-> pre.allocs + 1, draws |-> pre.draws + 1, hit |-> FALSE]
LevelFrom(pre, r, level, sz) ==
    IF ~pre.ret.img \/ sz.w = 0 \/ sz.h = 0
    THEN [imgs |-> Store(pre.imgs, r, level, NilImage), ret |-> NilImage,
          allocs |-> pre.allocs, draws |-> pre.draws, hit |-> FALSE]
    ELSE [imgs |-> Store(pre.imgs, r, level, Image(sz.w, sz.h)), ret |-> Image(sz.w, sz.h),
          allocs |-> pre.allocs + 1, draws |-> pre.draws + 1, hit |-> FALSE]

\* level(r, level) of a non-volatile pyramid whose cache is imgs, for level # 0.
\* Gives the cache afterwards, the entry returned, the images allocated
\* (shareable.NewImage) and the draws issued on the way, and whether the
\* entry was found in the cache (hit).
RECURSIVE Derive(_, _, _)
Derive(imgs, r, level) ==
    LET imgs1 == IF r \in DOMAIN imgs THEN imgs ELSE (r :> NoLevels) @@ imgs
    IN  IF Cached(imgs1[r], level)
        THEN [imgs |-> imgs1, ret |-> imgs1[r][level], allocs |-> 0, draws |-> 0,
              hit |-> TRUE]
        ELSE LevelFrom(IF level = 1 \/ level = -1
                       THEN [imgs |-> imgs1, ret |-> Orig, allocs |-> 0, draws |-> 0]
                       ELSE Derive(imgs1, r, IF level > 1 THEN level - 1 ELSE level + 1),
                       r, level, SizeForLevel(Dx(r), Dy(r), level))

\* mipmap.level: level 0 and a volatile pyramid are refused with a panic.
LevelOf(volatile, imgs, r, level) ==
    IF level = 0 \/ volatile
    THEN [panicked |-> TRUE, imgs |-> imgs, ret |-> NilImage, allocs |-> 0, draws |-> 0,
          hit |-> FALSE]
    ELSE [panicked |-> FALSE] @@ Derive(imgs, r, level)

-----------------------------------------------------------------------------
(* mipmap.disposeMipmaps *)

\* shareable.Image.Dispose on a nil image: the method is called on every entry
\* of the cache, a nil entry included; it returns, or it panics on its nil
\* receiver.
NilDispose == {"returns", "panics"}

\* The map after disposeMipmaps.
ClearedMut(imgs) == imgs
Cleared(imgs) == NoImgs

\* The outcomes of disposeMipmaps on the cache imgs: every image disposed and
\* the map emptied, or a panic on a nil entry (the images disposed before it
\* are not recorded).
DisposeMipmaps(imgs) ==
    {[panicked |-> FALSE, imgs |-> Cleared(imgs), disposed |-> ImageKeys(imgs)]}
    \cup {[panicked |-> TRUE, imgs |-> imgs, disposed |-> {}] :
            x \in {y \in NilDispose : y = "panics" /\ NilKeys(imgs) # {}}}

-----------------------------------------------------------------------------
(* mipmap.mipmapLevel and mipmapLevelForDownscale *)

tooBigScale == 128

mipmapMaxSize == 1024

Maxf32(values) == CHOOSE v \in values : \A u \in values : FGe(v, u)

Minf32(values) == CHOOSE v \in values : \A u \in values : FGe(u, v)

GeomScaleSize(geom) ==
    LET x0 == geom.b
        y0 == geom.d
        x1 == geom.a
        y1 == geom.c
        x2 == FAdd(geom.a, geom.b)
        y2 == FAdd(geom.c, geom.d)
    IN  [sx |-> FSub(Maxf32({FZero, x0, x1, x2}), Minf32({FZero, x0, x1, x2})),
         sy |-> FSub(Maxf32({FZero, y0, y1, y2}), Minf32({FZero, y0, y1, y2}))]

TooBig(sx, sy) == FGe(sx, <<tooBigScale, 1>>) \/ FGe(sy, <<tooBigScale, 1>>)

\* The loop of mipmapLevelForDownscale.
DownscaleAtMost(d, level) == IF FLt(<<1, 4>>, d) THEN level ELSE level + 1
DownscaleMut(d, level) == IF FLt(d, <<1, 4>>) THEN level + 1 ELSE level
RECURSIVE Downscale(_, _)
Downscale(d, level) ==
    IF FLt(d, <<1, 4>>) THEN Downscale(FMul(d, <<4, 1>>), level + 1) ELSE level

\* mipmapLevelForDownscale, for a determinant that is neither NaN nor 0.
MipmapLevelForDownscale(det) == Downscale(FAbs(det), 0)

\* The times d can be divided by 4 and stay at 0.25 or above, up to n.
RECURSIVE Quarterings(_, _)
Quarterings(d, n) ==
    IF n = 0 \/ FLt(FMul(d, <<1, 4>>), <<1, 4>>) THEN 0
    ELSE 1 + Quarterings(FMul(d, <<1, 4>>), n - 1)

\* The loop of mipmapLevelForDownscale for the value d * 4^-q: multiplying
\* by 4 is exact, so the loop takes the q rounds that undo the factor 4^-q
\* and then those of d itself, or stops before the q rounds are over by as
\* many rounds as d can be divided by 4 without falling below 0.25.
DownscaleScaled(d, q, level) ==
    IF FLt(d, <<1, 4>>) THEN Downscale(d, level + q)
    ELSE level + q - Quarterings(d, q)

\* x halved k times, as far as the comparisons of mipmapLevel tell: a value
\* below 1 stands for the smaller ones.
RECURSIVE Halved(_, _)
Halved(x, k) ==
    IF k = 0 \/ FLt(x, <<1, 1>>) THEN x ELSE Halved(FMul(x, <<1, 2>>), k - 1)

\* The loop of mipmapLevel for an enlargement.
RECURSIVE Upscale(_, _, _, _, _)
Upscale(level, sx, sy, w, h) ==
    IF TooBig(sx, sy)
    THEN IF w * 2 >= mipmapMaxSize \/ h * 2 >= mipmapMaxSize
         THEN level - 1
         ELSE Upscale(level - 1, FMul(sx, <<1, 2>>), FMul(sy, <<1, 2>>), w * 2, h * 2)
    ELSE level

\* Whether mipmapLevel returns 0 for a volatile pyramid at this point.
VolatileIsLevel0(volatile) == volatile

\* Whether mipmapLevel panics: the determinant is NaN or 0.
MipmapLevelPanics(geom) == geom.nan \/ Det(geom)[1] = 0

\* mipmap.mipmapLevel once the scale (sx, sy) of the transform is known, for
\* a determinant that is neither NaN nor 0.
LevelForScale(volatile, geom, width, height, filter, sx, sy) ==
    IF TooBig(sx, sy)
    THEN IF filter # "FilterNearest" THEN 0
         ELSE IF width >= mipmapMaxSize \/ height >= mipmapMaxSize THEN 0
         ELSE Upscale(0, sx, sy, width, height)
    ELSE IF filter # "FilterLinear" THEN 0
    ELSE IF VolatileIsLevel0(volatile) THEN 0
    ELSE IF geom.exp = 0 THEN MipmapLevelForDownscale(Det(geom))
    ELSE DownscaleScaled(FAbs(Det(geom)), geom.exp, 0)

\* mipmap.mipmapLevel, for a determinant that is neither NaN nor 0.
MipmapLevel(volatile, geom, width, height, filter) ==
    LevelForScale(volatile, geom, width, height, filter,
                  Halved(GeomScaleSize(geom).sx, geom.exp),
                  Halved(GeomScaleSize(geom).sy, geom.exp))

-----------------------------------------------------------------------------
(* The operations of a pyramid. A panic ends the program: no operation      *)
(* follows it. The vertices of a draw are taken from the shared vertex      *)
(* buffer, which is modelled on its own below.                              *)

\* What a call records: the pyramid drawn into or asked (dst), the source,
\* the bounds, the class of the determinant, the level mipmapLevel selected
\* (sel) and the level after the adjustments, the draws into dst, whether
\* level was called (asked) and found its entry cached (hit), the images
\* allocated and the draws issued to derive levels, the entry level returned,
\* the keys of the images disposed.
NoCall == [op |-> "none", dst |-> 0, src |-> 0, r |-> ZR, det |-> "none",
           sel |-> 0, level |-> 0, draws |-> 0, asked |-> FALSE, hit |-> FALSE,
           allocs |-> 0, derivations |-> 0,
           ret |-> NilImage, disposed |-> {}, released |-> FALSE,
           panicked |-> FALSE]

\* mipmap.isDisposed, orig being the bases of the pyramids.
IsDisposed(orig, p) == orig[p] = NilImage

\* The outcomes of a call of a method of shareable.Image on, or with, the
\* bases of the pyramids ps: it returns; with a nil base among them it
\* returns or it panics, as Dispose does on a nil image.
OrigCall(orig, ps) ==
    IF \A p \in ps : ~IsDisposed(orig, p) THEN {"returns"} ELSE NilDispose

\* A call of a method of shareable.Image on, or with, the bases of the
\* pyramids ps, the caches being imgs, and what follows it (rest) when it
\* returns.
OrigThen(ps, imgs, call, rest) ==
    \E o \in OrigCall(mipOrig, ps) :
        IF o = "panics"
        THEN /\ mipRes' = [panicked |-> TRUE] @@ call
             /\ mipImgs' = imgs
        ELSE rest

\* Whether level(r, level) on the cache imgs draws from the base: no level
\* from the first to the one asked for is cached and the first has a size.
RECURSIVE OrigDrawn(_, _, _)
OrigDrawn(imgs, r, level) ==
    IF r \in DOMAIN imgs /\ Cached(imgs[r], level) THEN FALSE
    ELSE IF level = 1 \/ level = -1
    THEN SizeForLevel(Dx(r), Dy(r), level).w # 0 /\ SizeForLevel(Dx(r), Dy(r), level).h # 0
    ELSE OrigDrawn(imgs, r, IF level > 1 THEN level - 1 ELSE level + 1)

\* The bases level(r, level) of pyramid p draws from.
OrigUsed(p, r, level) == IF OrigDrawn(mipImgs[p], r, level) THEN {p} ELSE {}

\* The caches once level(r, ...) of pyramid p has looked up r.
Touched(p, r) ==
    IF r \in DOMAIN mipImgs[p] THEN mipImgs
    ELSE [mipImgs EXCEPT ![p] = (r :> NoLevels) @@ mipImgs[p]]

\* The end of fill, replacePixels, drawImage and drawTriangles on dst:
\* disposeMipmaps, on the caches imgs.
Invalidate(imgs, dst, call) ==
    \E o \in DisposeMipmaps(imgs[dst]) :
        /\ mipImgs' = [imgs EXCEPT ![dst] = o.imgs]
        /\ mipRes' = [disposed |-> o.disposed, panicked |-> o.panicked] @@ call

Fill(p) ==
    /\ ~mipRes.panicked
    /\ UNCHANGED <<rtpVars, vbVars, fnVars, mipOrig>>
    /\ OrigThen({p}, mipImgs, [op |-> "fill", dst |-> p] @@ NoCall,
                Invalidate(mipImgs, p, [op |-> "fill", dst |-> p] @@ NoCall))

ReplacePixels(p) ==
    /\ ~mipRes.panicked
    /\ UNCHANGED <<rtpVars, vbVars, fnVars, mipOrig>>
    /\ OrigThen({p}, mipImgs, [op |-> "replacePixels", dst |-> p] @@ NoCall,
                Invalidate(mipImgs, p, [op |-> "replacePixels", dst |-> p] @@ NoCall))

\* The loop of drawImage that lowers a positive level while the bounds
\* scaled by it are empty.
\* The bits of an int.
IntBits == 64

\* Whether w / (1 << level) is 0, for 0 <= w < 2^31 and a level below
\* IntBits: from 2^31 on the shifted value is above w or, at the sign bit,
\* below -w.
DivIsZero(w, level) == IF level >= 31 THEN TRUE ELSE w \div (2 ^ level) = 0

\* Whether the loop panics: 1 << level is 0 when the level is IntBits or
\* more, and the division by it is a division by zero.
AdjustPanics(level) == level >= IntBits

RECURSIVE Adjust(_, _, _)
Adjust(level, w, h) ==
    IF level >= 0 /\ (DivIsZero(w, level) \/ DivIsZero(h, level))
    THEN Adjust(level - 1, w, h)
    ELSE level

ClampMut(level) == level
Clamp(level) == IF level > 6 THEN 6 ELSE IF level < -6 THEN -6 ELSE level

\* The class of the determinant of a transform.
DetClass(geom) ==
    IF geom.nan THEN "nan" ELSE IF Det(geom)[1] = 0 THEN "zero" ELSE "ok"

\* Whether drawImage returns at once: the determinant is 0, or it is NaN.
SkipsDrawMut(geom) == geom.nan
SkipsDrawZeroOnly(geom) == ~geom.nan /\ Det(geom)[1] = 0
SkipsDraw(geom) == (~geom.nan /\ Det(geom)[1] = 0) \/ geom.nan

\* drawImage once the level is selected: sel is the level mipmapLevel gave,
\* adj the level after the loop that lowers it.
DrawAtLevel(dst, src, bounds, call, sel, adj) ==
    IF sel > 0 /\ adj < 0
    THEN /\ mipRes' = [sel |-> sel, level |-> adj] @@ call
         /\ UNCHANGED mipImgs
    ELSE IF Clamp(adj) = 0
    THEN OrigThen({dst, src}, mipImgs, [sel |-> sel, level |-> 0] @@ call,
                  Invalidate(mipImgs, dst, [sel |-> sel, level |-> 0, draws |-> 1] @@ call))
    ELSE \E lv \in {LevelOf(Volatile(src), mipImgs[src], bounds, Clamp(adj))} :
           IF lv.panicked
           THEN /\ mipRes' = [sel |-> sel, level |-> Clamp(adj), asked |-> TRUE,
                               panicked |-> TRUE] @@ call
                /\ UNCHANGED mipImgs
           ELSE OrigThen(OrigUsed(src, bounds, Clamp(adj)), Touched(src, bounds),
                         [sel |-> sel, level |-> Clamp(adj), asked |-> TRUE] @@ call,
                  OrigThen(IF lv.ret.img THEN {dst} ELSE {},
                           [mipImgs EXCEPT ![src] = lv.imgs],
                           [sel |-> sel, level |-> Clamp(adj), ret |-> lv.ret,
                            asked |-> TRUE, hit |-> lv.hit,
                            allocs |-> lv.allocs, derivations |-> lv.draws] @@ call,
                    Invalidate([mipImgs EXCEPT ![src] = lv.imgs], dst,
                               [sel |-> sel, level |-> Clamp(adj), ret |-> lv.ret,
                                asked |-> TRUE, hit |-> lv.hit,
                                allocs |-> lv.allocs, derivations |-> lv.draws,
                                draws |-> IF lv.ret.img THEN 1 ELSE 0] @@ call)))

DrawImage(dst, src, bounds, geom, filter) ==
    LET call == [op |-> "drawImage", dst |-> dst, src |-> src, r |-> bounds,
                 det |-> DetClass(geom)] @@ NoCall
    IN
    /\ ~mipRes.panicked
    /\ UNCHANGED <<rtpVars, vbVars, fnVars, mipOrig>>
    /\ IF SkipsDraw(geom)
       THEN /\ mipRes' = call
            /\ UNCHANGED mipImgs
       ELSE IF MipmapLevelPanics(geom)
       THEN /\ mipRes' = [panicked |-> TRUE] @@ call
            /\ UNCHANGED mipImgs
       ELSE \E sel \in {MipmapLevel(Volatile(src), geom, Dx(bounds), Dy(bounds), filter)} :
              IF sel > 0 /\ AdjustPanics(sel)
              THEN /\ mipRes' = [sel |-> sel, level |-> sel, panicked |-> TRUE] @@ call
                   /\ UNCHANGED mipImgs
              ELSE
              DrawAtLevel(dst, src, bounds, call, sel,
                          IF sel > 0 THEN Adjust(sel, Dx(bounds), Dy(bounds)) ELSE sel)

DrawTriangles(dst, src, bounds) ==
    /\ ~mipRes.panicked
    /\ UNCHANGED <<rtpVars, vbVars, fnVars, mipOrig>>
    /\ OrigThen({dst, src}, mipImgs,
                [op |-> "drawTriangles", dst |-> dst, src |-> src, r |-> bounds] @@ NoCall,
                Invalidate(mipImgs, dst, [op |-> "drawTriangles", dst |-> dst, src |-> src,
                                          r |-> bounds, draws |-> 1] @@ NoCall))

\* A direct request for a level of pyramid p.
Level(p, r, level) ==
    LET lv == LevelOf(Volatile(p), mipImgs[p], r, level)
        call == [op |-> "level", dst |-> p, r |-> r, level |-> level, asked |-> TRUE]
                  @@ NoCall
    IN  /\ ~mipRes.panicked
        /\ UNCHANGED <<rtpVars, vbVars, fnVars, mipOrig>>
        /\ IF lv.panicked
           THEN /\ mipRes' = [panicked |-> TRUE] @@ call
                /\ UNCHANGED mipImgs
           ELSE OrigThen(OrigUsed(p, r, level), Touched(p, r), call,
                  /\ mipImgs' = [mipImgs EXCEPT ![p] = lv.imgs]
                  /\ mipRes' = [ret |-> lv.ret, hit |-> lv.hit, allocs |-> lv.allocs,
                                derivations |-> lv.draws] @@ call)

\* dispose: disposeMipmaps, then Dispose of the base, then orig = nil.
Dispose(p) ==
    LET call == [op |-> "dispose", dst |-> p] @@ NoCall
    IN  /\ ~mipRes.panicked
        /\ UNCHANGED <<rtpVars, vbVars, fnVars>>
        /\ \E o \in DisposeMipmaps(mipImgs[p]), c \in OrigCall(mipOrig, {p}) :
              /\ mipImgs' = [mipImgs EXCEPT ![p] = o.imgs]
              /\ IF o.panicked \/ c = "panics"
                 THEN /\ mipRes' = [disposed |-> o.disposed, panicked |-> TRUE] @@ call
                      /\ UNCHANGED mipOrig
                 ELSE /\ mipRes' = [disposed |-> o.disposed,
                                     released |-> ~IsDisposed(mipOrig, p)] @@ call
                      /\ mipOrig' = [mipOrig EXCEPT ![p] = NilImage]

\* clearFramebuffer: ClearFramebuffer of the base, and nothing else.
ClearFramebuffer(p) ==
    /\ ~mipRes.panicked
    /\ UNCHANGED <<rtpVars, vbVars, fnVars, mipOrig>>
    /\ OrigThen({p}, mipImgs, [op |-> "clearFramebuffer", dst |-> p] @@ NoCall,
                /\ mipRes' = [op |-> "clearFramebuffer", dst |-> p] @@ NoCall
                /\ UNCHANGED mipImgs)

MipInit ==
    /\ mipImgs = [p \in Pyramids |-> NoImgs]
    /\ mipOrig = [p \in Pyramids |-> Orig]
    /\ mipRes = NoCall

MipNext ==
    \/ \E p \in Pyramids : Fill(p)
    \/ \E p \in Pyramids : ReplacePixels(p)
    \/ \E dst \in Pyramids, src \in Pyramids, bounds \in Bounds, geom \in Geoms,
          filter \in Filters : DrawImage(dst, src, bounds, geom, filter)
    \/ \E dst \in Pyramids, src \in Pyramids, bounds \in Bounds :
          DrawTriangles(dst, src, bounds)
    \/ \E p \in Pyramids, r \in Bounds, level \in (-MaxLevel)..MaxLevel :
          Level(p, r, level)

\* The transforms drawn while pyramids are disposed of.
LifeGeoms == {GIdentity, GSingular, GQuarter}

\* The operations of MipNext, with dispose and clearFramebuffer.
LifeNext ==
    \/ \E p \in Pyramids : Fill(p)
    \/ \E p \in Pyramids : ReplacePixels(p)
    \/ \E dst \in Pyramids, src \in Pyramids, bounds \in Bounds, geom \in LifeGeoms,
          filter \in Filters : DrawImage(dst, src, bounds, geom, filter)
    \/ \E dst \in Pyramids, src \in Pyramids, bounds \in Bounds :
          DrawTriangles(dst, src, bounds)
    \/ \E p \in Pyramids, r \in Bounds, level \in (-MaxLevel)..MaxLevel :
          Level(p, r, level)
    \/ \E p \in Pyramids : Dispose(p)
    \/ \E p \in Pyramids : ClearFramebuffer(p)

\* The source bounds of the draws whose level is lowered or clamped: 128 x 128,
\* 3 x 3, 1 x 3 and an empty rectangle.
DrawBounds == {Rect(0, 0, 128, 128), Rect(0, 0, 3, 3), Rect(0, 0, 1, 3), Rect(0, 0, 0, 3)}

\* The transforms of these draws.
DrawGeoms == {GTiny, GHuge, GMinute}

\* drawImage alone, on sources of several sizes.
DrawNext ==
    \E dst \in Pyramids, src \in Pyramids, bounds \in DrawBounds, geom \in DrawGeoms,
       filter \in Filters : DrawImage(dst, src, bounds, geom, filter)

-----------------------------------------------------------------------------
(* verticesBackend.slice, called by several goroutines at once. Each        *)
(* statement of slice is a step of the goroutine that runs it.              *)

Procs == {1, 2}

\* At most MaxCalls calls of slice are made.
MaxCalls == 3

\* graphics.VertexFloatNum: the floats of one vertex.
VertexFloatNum == 12

\* The least number of vertices a new buffer holds.
MinVertices == 1024

\* The numbers of vertices asked for: none, a quad, what fills a buffer
\* exactly after a quad, and more than a new buffer of the least size holds.
Ns == {0, 4, MinVertices - 4, MinVertices + 1}

NilBackend == [id |-> 0, len |-> 0]

NoSlice == [buf |-> 0, lo |-> 0, hi |-> 0]

\* Whether Lock returns, the mutex being held by holder (0: by nobody).
MayLockMut(holder) == TRUE
MayLock(holder) == holder = 0

Need(n) == n * VertexFloatNum

\* Whether need more floats from head on pass the end of a buffer of len floats.
ExceedsMut(head, need, len) == head + need >= len
Exceeds(head, need, len) == head + need > len

\* slice(n) is called by goroutine p.
SliceCall(p, n) ==
    /\ vbPc[p] = "idle"
    /\ \A q \in Procs : vbPc[q] # "panicked"
    /\ vbCalls < MaxCalls
    /\ vbCalls' = vbCalls + 1
    /\ vbN' = [vbN EXCEPT ![p] = n]
    /\ vbPc' = [vbPc EXCEPT ![p] = "lock"]
    /\ UNCHANGED <<vbBackend, vbHead, vbHolder, vbS, vbEntry, vbMade, vbWindows>>
    /\ UNCHANGED <<rtpVars, mipVars, fnVars>>

\* v.m.Lock()
SliceLock(p) ==
    /\ vbPc[p] = "lock"
    /\ MayLock(vbHolder)
    /\ vbHolder' = p
    /\ vbEntry' = [vbEntry EXCEPT ![p] = [backend |-> vbBackend, head |-> vbHead]]
    /\ vbPc' = [vbPc EXCEPT ![p] = "reset"]
    /\ UNCHANGED <<vbBackend, vbHead, vbN, vbS, vbMade, vbCalls, vbWindows>>
    /\ UNCHANGED <<rtpVars, mipVars, fnVars>>

\* if v.head+need > len(v.backend) { v.backend = nil; v.head = 0 }
SliceReset(p) ==
    /\ vbPc[p] = "reset"
    /\ IF Exceeds(vbHead, Need(vbN[p]), vbBackend.len)
       THEN /\ vbBackend' = NilBackend
            /\ vbHead' = 0
       ELSE UNCHANGED <<vbBackend, vbHead>>
    /\ vbPc' = [vbPc EXCEPT ![p] = "make"]
    /\ UNCHANGED <<vbHolder, vbN, vbS, vbEntry, vbMade, vbCalls, vbWindows>>
    /\ UNCHANGED <<rtpVars, mipVars, fnVars>>

\* if v.backend == nil { v.backend = make([]float32, VertexFloatNum*max(1024, n)) }
SliceMake(p) ==
    /\ vbPc[p] = "make"
    /\ IF vbBackend = NilBackend
       THEN /\ vbBackend' = [id |-> vbMade + 1,
                             len |-> VertexFloatNum *
                                       (IF vbN[p] > MinVertices THEN vbN[p] ELSE MinVertices)]
            /\ vbMade' = vbMade + 1
       ELSE UNCHANGED <<vbBackend, vbMade>>
    /\ vbPc' = [vbPc EXCEPT ![p] = "cut"]
    /\ UNCHANGED <<vbHead, vbHolder, vbN, vbS, vbEntry, vbCalls, vbWindows>>
    /\ UNCHANGED <<rtpVars, mipVars, fnVars>>

\* s := v.backend[v.head : v.head+need]; a slice that passes the end of the
\* buffer is a panic.
SliceCut(p) ==
    /\ vbPc[p] = "cut"
    /\ IF vbHead + Need(vbN[p]) > vbBackend.len
       THEN /\ vbPc' = [vbPc EXCEPT ![p] = "panicked"]
            /\ UNCHANGED vbS
       ELSE /\ vbS' = [vbS EXCEPT ![p] = [buf |-> vbBackend.id, lo |-> vbHead,
                                           hi |-> vbHead + Need(vbN[p])]]
            /\ vbPc' = [vbPc EXCEPT ![p] = "advance"]
    /\ UNCHANGED <<vbBackend, vbHead, vbHolder, vbN, vbEntry, vbMade, vbCalls, vbWindows>>
    /\ UNCHANGED <<rtpVars, mipVars, fnVars>>

\* v.head += need
SliceAdvance(p) ==
    /\ vbPc[p] = "advance"
    /\ vbHead' = vbHead + Need(vbN[p])
    /\ vbPc' = [vbPc EXCEPT ![p] = "unlock"]
    /\ UNCHANGED <<vbBackend, vbHolder, vbN, vbS, vbEntry, vbMade, vbCalls, vbWindows>>
    /\ UNCHANGED <<rtpVars, mipVars, fnVars>>

\* v.m.Unlock(); return s
SliceUnlock(p) ==
    /\ vbPc[p] = "unlock"
    /\ vbHolder' = 0
    /\ vbWindows' = vbWindows \cup
                      {[call |-> Cardinality(vbWindows) + 1, proc |-> p, n |-> vbN[p],
                        buf |-> vbS[p].buf, lo |-> vbS[p].lo, hi |-> vbS[p].hi,
                        len |-> vbBackend.len, made |-> vbMade,
                        entry |-> vbEntry[p], head |-> vbHead]}
    /\ vbPc' = [vbPc EXCEPT ![p] = "idle"]
    /\ vbS' = [vbS EXCEPT ![p] = NoSlice]
    /\ UNCHANGED <<vbBackend, vbHead, vbN, vbEntry, vbMade, vbCalls>>
    /\ UNCHANGED <<rtpVars, mipVars, fnVars>>

VbInit ==
    /\ vbBackend = NilBackend
    /\ vbHead = 0
    /\ vbHolder = 0
    /\ vbPc = [p \in Procs |-> "idle"]
    /\ vbN = [p \in Procs |-> 0]
    /\ vbS = [p \in Procs |-> NoSlice]
    /\ vbEntry = [p \in Procs |-> [backend |-> NilBackend, head |-> 0]]
    /\ vbMade = 0
    /\ vbCalls = 0
    /\ vbWindows = {}

VbNext ==
    \/ \E p \in Procs, n \in Ns : SliceCall(p, n)
    \/ \E p \in Procs : SliceLock(p)
    \/ \E p \in Procs : SliceReset(p)
    \/ \E p \in Procs : SliceMake(p)
    \/ \E p \in Procs : SliceCut(p)
    \/ \E p \in Procs : SliceAdvance(p)
    \/ \E p \in Procs : SliceUnlock(p)

-----------------------------------------------------------------------------
(* quadVertices, mipmapLevelForDownscale and sizeForLevel, each called on   *)
(* its own. The float32 values drawn are small integers and fractions,      *)
(* whose sums and products float32 holds exactly.                           *)

\* The deepest level sizeForLevel is called with, either way.
MaxShift == 3

NoFn == [fn |-> "none", in |-> <<>>, vs |-> <<>>, level |-> 0,
         size |-> [w |-> 0, h |-> 0], window |-> NoSlice, panicked |-> FALSE]

\* slice(n) run by goroutine p from its call to its return, no other
\* goroutine being in slice: the new state of the vertex buffer, the window
\* returned being s.
SliceAlone(p, n, s) ==
    LET need == Need(n)
        reset == Exceeds(vbHead, need, vbBackend.len)
        head == IF reset THEN 0 ELSE vbHead
        fresh == reset \/ vbBackend = NilBackend
        backend == IF fresh
                   THEN [id |-> vbMade + 1,
                         len |-> VertexFloatNum *
                                   (IF n > MinVertices THEN n ELSE MinVertices)]
                   ELSE vbBackend
        made == IF fresh THEN vbMade + 1 ELSE vbMade
    IN  /\ vbHolder = 0
        /\ \A q \in Procs : vbPc[q] = "idle"
        /\ vbCalls < MaxCalls
        /\ head + need <= backend.len
        /\ s = [buf |-> backend.id, lo |-> head, hi |-> head + need]
        /\ vbCalls' = vbCalls + 1
        /\ vbN' = [vbN EXCEPT ![p] = n]
        /\ vbEntry' = [vbEntry EXCEPT ![p] = [backend |-> vbBackend, head |-> vbHead]]
        /\ vbBackend' = backend
        /\ vbMade' = made
        /\ vbHead' = head + need
        /\ vbWindows' = vbWindows \cup
                          {[call |-> Cardinality(vbWindows) + 1, proc |-> p, n |-> n,
                            buf |-> backend.id, lo |-> head, hi |-> head + need,
                            len |-> backend.len, made |-> made,
                            entry |-> [backend |-> vbBackend, head |-> vbHead],
                            head |-> head + need]}
        /\ UNCHANGED <<vbHolder, vbPc, vbS>>

\* The source rectangles of the quads, as sx0, sy0, sx1, sy1: one at the
\* origin and one away from it.
QuadRects == {<<0, 0, 2, 3>>, <<1, 2, 3, 5>>}

\* The transforms of the quads, as a, b, c, d: the identity, a scaling, a
\* quarter turn and one with four different elements.
QuadGeoms == {<<1, 0, 0, 1>>, <<2, 0, 0, 2>>, <<0, -1, 1, 0>>, <<1, 2, 3, 4>>}

\* The translations of the quads, as tx, ty.
QuadShifts == {<<0, 0>>, <<5, 7>>}

\* The colors of the quads, as cr, cg, cb, ca.
QuadColors == {<<1, 1, 1, 1>>, <<1, 2, 3, 4>>}

\* The source position of each of the four vertices, in the order written.
SrcCornersMut(u0, v0, u1, v1) == <<<<u0, v0>>, <<u1, v0>>, <<u1, v1>>, <<u0, v1>>>>
SrcCorners(u0, v0, u1, v1) == <<<<u0, v0>>, <<u1, v0>>, <<u0, v1>>, <<u1, v1>>>>

\* The destination of each of the four vertices, in the order written.
DstCornersMut(ax, by, cx, dy, tx, ty) ==
    <<<<tx, ty>>, <<ax + tx, by + ty>>, <<cx + tx, dy + ty>>,
      <<ax + cx + tx, by + dy + ty>>>>
DstCorners(ax, by, cx, dy, tx, ty) ==
    <<<<tx, ty>>, <<ax + tx, cx + ty>>, <<by + tx, dy + ty>>,
      <<ax + by + tx, cx + dy + ty>>>>

\* The floats quadVertices writes into the slice vertexSlice(4) returned.
QuadVertices(sx0, sy0, sx1, sy1, a, b, c, d, tx, ty, cr, cg, cb, ca) ==
    LET x == sx1 - sx0
        y == sy1 - sy0
        dst == DstCorners(a * x, b * y, c * x, d * y, tx, ty)
        src == SrcCorners(sx0, sy0, sx1, sy1)
        vertex(k) == <<dst[k][1], dst[k][2], src[k][1], src[k][2],
                       sx0, sy0, sx1, sy1, cr, cg, cb, ca>>
        written == vertex(1) \o vertex(2) \o vertex(3) \o vertex(4)
    IN  [i \in 1..Need(4) |-> written[i]]

QuadVerticesCall(r, g, t, col) ==
    /\ \E s \in {[buf |-> id, lo |-> lo, hi |-> lo + Need(4)] :
                    id \in 1..MaxCalls, lo \in {k * Need(4) : k \in 0..MaxCalls}} :
          /\ SliceAlone(1, 4, s)
          /\ fnRes' = [NoFn EXCEPT
                 !.fn = "quadVertices",
                 !.in = r \o g \o t \o col,
                 !.window = s,
                 !.vs = QuadVertices(r[1], r[2], r[3], r[4], g[1], g[2], g[3], g[4],
                                     t[1], t[2], col[1], col[2], col[3], col[4])]
    /\ UNCHANGED <<rtpVars, mipVars>>

\* A NaN determinant.
NaN == <<0, 0>>

IsNaN(x) == x[2] = 0

\* The determinants mipmapLevelForDownscale is called with.
Dets == {<<1, 1>>, <<1, 5>>, <<1, 20>>, <<3, 1000>>, <<1, 4>>, <<1, 16>>,
         <<-1, 5>>, <<-3, 1000>>, <<2, 1>>, <<-1, 65536>>, <<1, 65537>>,
         FZero, NaN}

MipmapLevelForDownscaleCall(det) ==
    /\ fnRes' = IF IsNaN(det) \/ det = FZero
                THEN [NoFn EXCEPT !.fn = "mipmapLevelForDownscale", !.in = det,
                                  !.panicked = TRUE]
                ELSE [NoFn EXCEPT !.fn = "mipmapLevelForDownscale", !.in = det,
                                  !.level = MipmapLevelForDownscale(det)]
    /\ UNCHANGED <<rtpVars, mipVars, vbVars>>

\* The sizes sizeForLevel is called with.
OrigWidths == {0, 1, 3, 8, 100}

OrigHeights == {1, 3, 50}

SizeForLevelCall(origWidth, origHeight, level) ==
    /\ fnRes' = [NoFn EXCEPT !.fn = "sizeForLevel",
                             !.in = <<origWidth, origHeight, level>>,
                             !.size = SizeForLevel(origWidth, origHeight, level)]
    /\ UNCHANGED <<rtpVars, mipVars, vbVars>>

FnInit == fnRes = NoFn

FnNext ==
    \/ \E r \in QuadRects, g \in QuadGeoms, t \in QuadShifts, col \in QuadColors :
          QuadVerticesCall(r, g, t, col)
    \/ \E det \in Dets : MipmapLevelForDownscaleCall(det)
    \/ \E origWidth \in OrigWidths, origHeight \in OrigHeights,
          level \in (-MaxShift)..MaxShift :
          SizeForLevelCall(origWidth, origHeight, level)

-----------------------------------------------------------------------------
(* The specifications: each part of the core under any sequence of its     *)
(* operations, the other parts idle.                                       *)

Init == RtpInit /\ MipInit /\ VbInit /\ FnInit

SpecRtp == Init /\ [][RtpNext]_vars

SpecMip == Init /\ [][MipNext]_vars

SpecLife == Init /\ [][LifeNext]_vars

SpecDraw == Init /\ [][DrawNext]_vars

SpecVb == Init /\ [][VbNext]_vars

SpecFn == Init /\ [][FnNext]_vars

-----------------------------------------------------------------------------
(* The claims about the pixel patch store. *)

\* The rectangle of the addOrReplace or remove call c.
CallRect(c) == Rect(c.x, c.y, c.x + c.width, c.y + c.height)

\* The point of the at call c.
CallPt(c) == [X |-> c.i, Y |-> c.j]

\* The four bytes of the patch pix from the offset off (counted from 0) on.
BytesAt(pix, off) == <<pix[off + 1], pix[off + 2], pix[off + 3], pix[off + 4]>>

C1_NoOverlap == \A r, s \in DOMAIN rtpM : r # s => ~Overlaps(r, s)

C1_OverlapAddFails ==
    (/\ rtpRes'.call.op = "addOrReplace"
     /\ \E r \in DOMAIN rtpM : r # CallRect(rtpRes'.call) /\ Overlaps(r, CallRect(rtpRes'.call)))
    => (rtpRes'.panicked /\ rtpM' = rtpM /\ rtpLast' = rtpLast)

\* C1: in every reachable state of the store no two distinct stored
\* rectangles overlap, and an addOrReplace whose rectangle overlaps a stored,
\* non-identical rectangle panics and leaves the stored rectangles, their
\* patches and the last-used rectangle as they were.
C1_NonOverlap == []C1_NoOverlap /\ [][C1_OverlapAddFails]_vars

\* An addOrReplace of a patch of the right length has just panicked on a
\* stored rectangle that overlaps its own.
C1_Witness ==
    /\ rtpRes.call.op = "addOrReplace"
    /\ rtpRes.panicked
    /\ rtpRes.call.len = 4 * rtpRes.call.width * rtpRes.call.height
    /\ \E r \in DOMAIN rtpM : r # CallRect(rtpRes.call) /\ Overlaps(r, CallRect(rtpRes.call))

\* C2: after a successful addOrReplace(patch, x, y, w, h), in any reachable
\* state, at(i, j) for a pixel inside the written rectangle returns
\* found = true and the four bytes of patch at offset 4*((j-y)*w+(i-x)).
C2_RoundTrip ==
    \A a \in rtpAdded :
        (rtpRes.call.op = "at" /\ In(CallPt(rtpRes.call), a.r))
        => /\ ~rtpRes.panicked
           /\ rtpRes.found
           /\ rtpRes.px = BytesAt(a.pixels, 4 * ((rtpRes.call.j - a.y) * a.width
                                                 + (rtpRes.call.i - a.x)))

\* C7: at(x, y) for a point that no stored rectangle contains returns
\* found = false: it neither panics nor reports a hit.
C7_AbsentNotFound ==
    (/\ rtpRes.call.op = "at"
     /\ \A r \in DOMAIN rtpM : ~In(CallPt(rtpRes.call), r))
    => (~rtpRes.panicked /\ ~rtpRes.found)

\* C8: for two distinct stored rectangles R1 and R2, whatever rectangle is
\* cached as last used, an at(x, y) that returns for a point inside R1 reports
\* found = true with the bytes of R1's patch at the pixel's offset in R1, read
\* from R1's patch and not from R2's.
C8_NoCrossRead ==
    (rtpRes.call.op = "at" /\ ~rtpRes.panicked)
    => \A R1 \in DOMAIN rtpM :
          In(CallPt(rtpRes.call), R1)
          => /\ rtpRes.found
             /\ rtpRes.hit = {R1}
             /\ \A R2 \in DOMAIN rtpM \ {R1} : R2 \notin rtpRes.hit
             /\ rtpRes.px = BytesAt(rtpM[R1],
                                    4 * ((rtpRes.call.j - R1.Min.Y) * (R1.Max.X - R1.Min.X)
                                         + (rtpRes.call.i - R1.Min.X)))

\* An at has just returned the bytes of a pixel of one of two stored,
\* non-empty rectangles.
C8_Witness ==
    /\ rtpRes.call.op = "at"
    /\ ~rtpRes.panicked
    /\ rtpRes.found
    /\ \E R1, R2 \in DOMAIN rtpM :
          /\ R1 # R2 /\ ~Empty(R2)
          /\ In(CallPt(rtpRes.call), R1)
          /\ rtpRes.hit = {R1}

C9_BadLenAdd ==
    (/\ rtpRes'.call.op = "addOrReplace"
     /\ rtpRes'.call.len # 4 * rtpRes'.call.width * rtpRes'.call.height)
    => (rtpRes'.panicked /\ rtpM' = rtpM /\ rtpNil' = rtpNil /\ rtpLast' = rtpLast)

\* C9: an addOrReplace with a patch whose length differs from 4*width*height
\* panics and stores nothing: the stored rectangles, their patches and the
\* last-used rectangle are after the call what they were before it.
C9_BadLenFails == [][C9_BadLenAdd]_vars

\* An addOrReplace with a patch of the wrong length has just panicked on a
\* store that holds a rectangle and has a last-used rectangle.
C9_Witness ==
    /\ rtpRes.call.op = "addOrReplace"
    /\ rtpRes.call.len # 4 * rtpRes.call.width * rtpRes.call.height
    /\ rtpRes.panicked
    /\ DOMAIN rtpM # {}
    /\ rtpLast # ZR

-----------------------------------------------------------------------------
(* The claims about the mipmap pyramid. *)

\* The calls that change the pixels of the pyramid mipRes.dst.
Mutations == {"fill", "replacePixels", "drawImage", "drawTriangles"}

C3_Invalidates ==
    (/\ mipRes'.op \in Mutations
     /\ mipRes'.draws = 1 \/ mipRes'.op \in {"fill", "replacePixels"}
     /\ ~mipRes'.panicked)
    => /\ mipImgs'[mipRes'.dst] = NoImgs
       /\ ImageKeys(mipImgs[mipRes'.dst]) \subseteq mipRes'.disposed

C3_FreshAfter ==
    (/\ mipRes.op \in Mutations
     /\ mipRes.draws = 1 \/ mipRes.op \in {"fill", "replacePixels"}
     /\ mipRes'.op = "level"
     /\ mipRes'.dst = mipRes.dst
     /\ mipRes'.ret.img)
    => /\ ~mipRes'.hit
       /\ mipRes'.allocs >= 1
       /\ mipRes'.derivations >= 1
       /\ mipRes'.allocs = Abs(mipRes'.level)

\* C3: a fill, a replacePixels, or a drawImage or drawTriangles that draws
\* into a pyramid, once it has returned, has disposed every image of that
\* pyramid's cache of derived levels and left the cache empty; the next
\* level(rect, L) on the pyramid that returns an image allocates and draws it
\* anew.
C3_InvalidatedByMutation == [][C3_Invalidates /\ C3_FreshAfter]_vars

\* A call that draws into a pyramid has just disposed the derived images the
\* pyramid had cached.
C3_Witness ==
    /\ mipRes.op \in Mutations
    /\ ~mipRes.panicked
    /\ mipRes.disposed # {}
    /\ mipImgs[mipRes.dst] = NoImgs

C4_SecondRequest ==
    (/\ mipRes'.op = "level"
     /\ ~Volatile(mipRes'.dst)
     /\ <<mipRes'.r, mipRes'.level>> \in Keys(mipImgs[mipRes'.dst]))
    => /\ ~mipRes'.panicked
       /\ mipRes'.hit
       /\ mipRes'.ret = mipImgs[mipRes'.dst][mipRes'.r][mipRes'.level]
       /\ mipRes'.allocs = 0
       /\ mipRes'.derivations = 0
       /\ mipImgs' = mipImgs

\* C4: a level(rect, L) on a non-volatile pyramid whose cache still holds the
\* entry of an earlier level(rect, L), or of an earlier request that derived L
\* as a prerequisite, returns that entry, the image or the nil marker,
\* allocates no image, issues no draw and leaves the cache as it was.
C4_Memoized == [][C4_SecondRequest]_vars

\* A level request has just been answered from a cache that holds both
\* images and a nil marker.
C4_Witness ==
    /\ mipRes.op = "level"
    /\ mipRes.hit
    /\ ImageKeys(mipImgs[mipRes.dst]) # {}
    /\ NilKeys(mipImgs[mipRes.dst]) # {}

\* C5: a drawImage from a volatile pyramid, with a determinant that is
\* neither 0 nor NaN, selects level 0, draws from the base image, never calls
\* level on the source and leaves the source's cache empty.
C5_VolatileLevel0 ==
    (/\ mipRes.op = "drawImage"
     /\ Volatile(mipRes.src)
     /\ mipRes.det = "ok")
    => /\ mipRes.sel = 0
       /\ mipRes.level = 0
       /\ ~mipRes.asked
       /\ mipRes.draws = 1
       /\ mipImgs[mipRes.src] = NoImgs

C10_NoEffect ==
    (mipRes'.op = "drawImage" /\ mipRes'.det = "zero")
    => /\ ~mipRes'.panicked
       /\ mipRes'.draws = 0
       /\ ~mipRes'.asked
       /\ mipRes'.allocs = 0
       /\ mipRes'.derivations = 0
       /\ mipRes'.disposed = {}
       /\ mipImgs' = mipImgs

\* C10: a drawImage whose transform has the determinant 0 issues no draw,
\* derives no level of the source, disposes nothing and leaves the caches of
\* the destination and of the source as they were.
C10_ZeroDetNoOp == [][C10_NoEffect]_vars

\* A drawImage with a determinant of 0 has just returned, the destination
\* being a pyramid with cached levels.
C10_Witness ==
    /\ mipRes.op = "drawImage"
    /\ mipRes.det = "zero"
    /\ ~mipRes.panicked
    /\ ImageKeys(mipImgs[mipRes.dst]) # {}

\* C11 as stated: a drawImage whose transform has a NaN determinant aborts:
\* the call panics instead of returning.
C11_NaNFatal ==
    (mipRes.op = "drawImage" /\ mipRes.det = "nan") => mipRes.panicked

C11_NoEffect ==
    (mipRes'.op = "drawImage" /\ mipRes'.det = "nan")
    => /\ ~mipRes'.panicked
       /\ mipRes'.draws = 0
       /\ ~mipRes'.asked
       /\ mipRes'.allocs = 0
       /\ mipRes'.derivations = 0
       /\ mipRes'.disposed = {}
       /\ mipImgs' = mipImgs

\* C11, amended: a drawImage whose transform has a NaN determinant returns
\* without a panic; it issues no draw, derives no level, disposes nothing and
\* leaves the caches as they were.
C11_NaNNoOp == [][C11_NoEffect]_vars

\* A drawImage with a NaN determinant has just returned, the destination
\* being a pyramid with cached levels.
C11_Witness ==
    /\ mipRes.op = "drawImage"
    /\ mipRes.det = "nan"
    /\ ~mipRes.panicked
    /\ ImageKeys(mipImgs[mipRes.dst]) # {}

\* Whether the call of dispose that has just returned left the pyramid
\* disposed: isDisposed is true, the base was released, the cache is empty
\* and every derived image it held was disposed.
C17_Disposes ==
    (mipRes'.op = "dispose" /\ ~mipRes'.panicked)
    => /\ IsDisposed(mipOrig', mipRes'.dst)
       /\ mipRes'.released \/ IsDisposed(mipOrig, mipRes'.dst)
       /\ mipImgs'[mipRes'.dst] = NoImgs
       /\ ImageKeys(mipImgs[mipRes'.dst]) \subseteq mipRes'.disposed

\* Whether the call that has just ended, made on a disposed pyramid, ended
\* in a panic.
C17_LaterUseFails ==
    (/\ mipRes'.op \in Mutations \cup {"level", "dispose", "clearFramebuffer"}
     /\ IsDisposed(mipOrig, mipRes'.dst))
    => mipRes'.panicked

\* C17: after dispose() the pyramid is disposed (isDisposed() is true, the
\* base is released, the cache is empty, every derived image disposed), and
\* any later operation on it, a second dispose() included, ends in a panic
\* instead of being silently ignored.
C17_DisposedForGood == [][C17_Disposes /\ C17_LaterUseFails]_vars

\* Whether the call c is one that reaches disposeMipmaps when nothing before
\* it panics.
Invalidating(c) ==
    \/ c.op \in {"fill", "replacePixels", "drawTriangles", "dispose"}
    \/ /\ c.op = "drawImage"
       /\ c.det = "ok"
       /\ c.level = 0 \/ (c.asked /\ ~Volatile(c.src))

\* Whether the call that has just ended, on pyramids that are not disposed
\* and with nil entries in the cache of the destination, invalidated that
\* cache to the end: no panic, an empty cache, the images disposed and no
\* nil entry disposed.
C18_Completes ==
    (/\ Invalidating(mipRes')
     /\ ~IsDisposed(mipOrig, mipRes'.dst)
     /\ mipRes'.op \in {"drawImage", "drawTriangles"} => ~IsDisposed(mipOrig, mipRes'.src)
     /\ NilKeys(mipImgs[mipRes'.dst]) # {})
    => /\ ~mipRes'.panicked
       /\ mipImgs'[mipRes'.dst] = NoImgs
       /\ ImageKeys(mipImgs[mipRes'.dst]) \subseteq mipRes'.disposed
       /\ mipRes'.disposed \cap NilKeys(mipImgs[mipRes'.dst]) = {}

\* C18: the invalidation of a cache that holds nil entries (the markers of
\* levels without a size) always completes: only the images are disposed,
\* the markers are dropped and the cache is empty afterwards, so that fill,
\* replacePixels, drawImage, drawTriangles and dispose return normally.
C18_MarkersDropped == [][C18_Completes]_vars

\* C19: no cached level is ever stale: after every operation that changes
\* the pixels of the base (fill, replacePixels, drawImage and drawTriangles
\* on their destination, clearFramebuffer) the cache of the pyramid is empty.
C19_NeverStale ==
    (/\ \/ mipRes.op \in {"fill", "replacePixels", "drawTriangles", "clearFramebuffer"}
        \/ mipRes.op = "drawImage" /\ mipRes.draws = 1
     /\ ~mipRes.panicked)
    => mipImgs[mipRes.dst] = NoImgs

\* C20: level 0 is never a key of a cache; the entry for (rectangle, level)
\* is an image exactly when sizeForLevel of the rectangle's width and height
\* and the level is not 0 in either axis, and a nil entry otherwise; an image
\* has that size, so none of size zero is allocated.
C20_Entries ==
    \A p \in Pyramids : \A k \in Keys(mipImgs[p]) :
        LET e == mipImgs[p][k[1]][k[2]]
            sz == SizeForLevel(Dx(k[1]), Dy(k[1]), k[2])
        IN  /\ k[2] # 0
            /\ e.img <=> (sz.w # 0 /\ sz.h # 0)
            /\ e.img => (e.w = sz.w /\ e.h = sz.h /\ e.w > 0 /\ e.h > 0)
            /\ ~e.img => e = NilImage

\* The cache of a pyramid holds an image of a level above 1, an image of a
\* negative level and a nil entry.
C20_Witness ==
    \E p \in Pyramids :
        /\ \E k \in ImageKeys(mipImgs[p]) : k[2] > 1
        /\ \E k \in ImageKeys(mipImgs[p]) : k[2] < 0
        /\ NilKeys(mipImgs[p]) # {}

\* Whether the bounds r scaled by 2^level have a size in both axes.
ScaledSize(r, level) == Dx(r) \div (2 ^ level) # 0 /\ Dy(r) \div (2 ^ level) # 0

\* Whether the drawImage that has just ended, level selection having given a
\* positive level for bounds r, drew as C21 says: with bounds that are zero
\* in an axis nothing at all happened; otherwise the level drawn from is the
\* highest one, up to the selected level and to 6, at which the scaled
\* bounds have a size, and the draw was made from the base at level 0 and
\* from an image of the scaled size at a level above 0.
C21_Lowered ==
    (mipRes'.op = "drawImage" /\ mipRes'.sel > 0)
    => LET r == mipRes'.r
           level == mipRes'.level
       IN  IF Dx(r) = 0 \/ Dy(r) = 0
           THEN /\ mipRes'.draws = 0
                /\ ~mipRes'.asked
                /\ mipRes'.disposed = {}
                /\ ~mipRes'.panicked
                /\ mipImgs' = mipImgs
           ELSE /\ mipRes'.draws = 1
                /\ level \in 0..mipRes'.sel
                /\ level <= 6
                /\ ScaledSize(r, level)
                /\ \A l \in (level + 1)..mipRes'.sel : l <= 6 => ~ScaledSize(r, l)
                /\ level = 0 => ~mipRes'.asked
                /\ level > 0 => /\ mipRes'.asked
                                /\ mipRes'.ret = Image(Dx(r) \div (2 ^ level),
                                                       Dy(r) \div (2 ^ level))

\* C21: when level selection in drawImage gives a positive level, the level
\* is lowered until the source bounds scaled by it are not zero in either
\* axis; the draw is then made from the base (level 0) or from a derived
\* image of non-zero size, and it is skipped, with no draw and the cache of
\* the destination untouched, only when the bounds are zero in an axis.
C21_LoweredUntilSized == [][C21_Lowered]_vars

\* A drawImage of 3 x 3 bounds for which a level above 1 was selected has
\* drawn from level 1.
C21_Witness ==
    /\ mipRes.op = "drawImage"
    /\ mipRes.r = Rect(0, 0, 3, 3)
    /\ mipRes.sel > 1
    /\ mipRes.level = 1
    /\ mipRes.draws = 1
    /\ mipRes.ret.img

\* The levels drawImage may ask its source for.
C22_Levels == ((-6)..6) \ {0}

\* Whether the drawImage that has just ended, if it asked its source for a
\* level, asked for one of C22_Levels.
C22_Request ==
    (mipRes'.op = "drawImage" /\ mipRes'.asked) => mipRes'.level \in C22_Levels

\* Whether every entry of every cache is for one of C22_Levels.
C22_Keys == \A p \in Pyramids : \A k \in Keys(mipImgs[p]) : k[2] \in C22_Levels

\* C22: every request for a derived level that drawImage makes on its source
\* is for a level that is not 0 and lies in [-6, 6], whatever level was
\* selected; so no cache ever holds, through drawImage, an entry for a level
\* outside [-6, 6].
C22_Clamped == [][C22_Request /\ C22_Keys']_vars

\* A drawImage for which a level below -6 was selected has asked its source
\* for level -6 and drawn from it, the levels -1 to -6 being cached.
C22_Witness ==
    /\ mipRes.op = "drawImage"
    /\ mipRes.sel < -6
    /\ mipRes.asked
    /\ mipRes.level = -6
    /\ mipRes.draws = 1
    /\ mipRes.dst # mipRes.src
    /\ {k[2] : k \in ImageKeys(mipImgs[mipRes.src])} = (-6)..(-1)

-----------------------------------------------------------------------------
(* The claims about the vertex buffer. *)

\* Whether the slices w1 and w2 share an element of a buffer.
WindowsOverlap(w1, w2) ==
    /\ w1.buf = w2.buf
    /\ w1.lo < w2.hi /\ w2.lo < w1.hi
    /\ w1.lo < w1.hi /\ w2.lo < w2.hi

\* C6: under any interleaving of concurrent slice(n) calls, every slice
\* returned has n*VertexFloatNum elements and lies inside one buffer, no two
\* slices returned from the same buffer overlap, no call panics, and
\* 0 <= head <= len(backend) at every step.
C6_Windows ==
    /\ \A w \in vbWindows :
          /\ w.hi - w.lo = w.n * VertexFloatNum
          /\ w.buf \in 1..w.made
          /\ 0 <= w.lo /\ w.hi <= w.len
    /\ \A w1, w2 \in vbWindows : w1 # w2 => ~WindowsOverlap(w1, w2)
    /\ \A p \in Procs : vbPc[p] # "panicked"
    /\ 0 <= vbHead /\ vbHead <= vbBackend.len

\* Both goroutines have been handed slices of one buffer, and a slice of a
\* later buffer has been handed out.
C6_Witness ==
    \E w1, w2, w3 \in vbWindows :
        /\ w1.buf = w2.buf /\ w1.proc # w2.proc
        /\ w1.lo < w1.hi /\ w2.lo < w2.hi
        /\ w3.buf # w1.buf

\* The length of a buffer made for a request of n vertices.
FreshLen(n) == VertexFloatNum * (IF n > MinVertices THEN n ELSE MinVertices)

\* The slice w is the start of a buffer that no earlier call was handed a
\* slice of, made for the request.
C12_Fresh(w) ==
    /\ w.buf # w.entry.backend.id
    /\ \A u \in vbWindows : u.call < w.call => u.buf # w.buf
    /\ w.len = FreshLen(w.n)
    /\ w.lo = 0

\* The slice w is cut from the buffer the call found, at the head it found.
C12_Kept(w) ==
    /\ w.buf = w.entry.backend.id
    /\ w.len = w.entry.backend.len
    /\ w.lo = w.entry.head

\* C12 as stated: a slice(n) that finds head + n*VertexFloatNum beyond the
\* length of the buffer gets the start of a fresh buffer of
\* VertexFloatNum*max(1024, n) floats, every other slice(n) is cut from the
\* buffer found, at the head found; head is then the end of the slice.
C12_AsStated ==
    \A w \in vbWindows :
        /\ IF w.entry.head + w.n * VertexFloatNum > w.entry.backend.len
           THEN C12_Fresh(w)
           ELSE C12_Kept(w)
        /\ w.head = w.hi

\* C12, amended: a slice(n) that finds head + n*VertexFloatNum beyond the
\* length of the buffer, or that finds no buffer at all, gets the start of a
\* fresh buffer of VertexFloatNum*max(1024, n) floats; every other slice(n)
\* is cut from the buffer found, at the head found; head is then the end of
\* the slice.
C12_Realloc ==
    \A w \in vbWindows :
        /\ IF \/ w.entry.head + w.n * VertexFloatNum > w.entry.backend.len
              \/ w.entry.backend = NilBackend
           THEN C12_Fresh(w)
           ELSE C12_Kept(w)
        /\ w.head = w.hi

\* A slice was cut from the buffer found, behind an earlier slice, and a
\* later slice, too long for what was left, is the start of a fresh buffer.
C12_Witness ==
    \E w1, w2 \in vbWindows :
        /\ w1.lo > 0 /\ w1.lo < w1.hi /\ w1.buf = w1.entry.backend.id
        /\ w2.entry.head > 0 /\ w2.lo = 0 /\ w2.lo < w2.hi
        /\ w2.buf # w2.entry.backend.id

-----------------------------------------------------------------------------
(* The claims about quadVertices, mipmapLevelForDownscale and sizeForLevel. *)

\* The corner of the source rectangle that vertex k of the quadVertices call
\* fnRes stands for: top-left, top-right, bottom-left, bottom-right.
QuadCorner(k) ==
    LET in == fnRes.in
    IN  <<IF k \in {1, 3} THEN in[1] ELSE in[3], IF k \in {1, 2} THEN in[2] ELSE in[4]>>

\* The floats of vertex k of the quadVertices call fnRes.
QuadVertex(k) == SubSeq(fnRes.vs, VertexFloatNum * (k - 1) + 1, VertexFloatNum * k)

\* C13: for every source rectangle, one whose minimum corner is not the
\* origin included, the destination of each vertex quadVertices returns is
\* the transform applied to the coordinates of its corner (cx, cy):
\* (a*cx + b*cy + tx, c*cx + d*cy + ty).
C13_CornerTransformed ==
    fnRes.fn = "quadVertices"
    => \A k \in 1..4 :
          LET in == fnRes.in
              cx == QuadCorner(k)[1]
              cy == QuadCorner(k)[2]
          IN  /\ QuadVertex(k)[1] = in[5] * cx + in[6] * cy + in[9]
              /\ QuadVertex(k)[2] = in[7] * cx + in[8] * cy + in[10]

\* C13, amended: the destination of each vertex quadVertices returns is the
\* transform applied to its corner (cx, cy) taken relative to the minimum
\* corner (x0, y0) of the source rectangle:
\* (a*(cx-x0) + b*(cy-y0) + tx, c*(cx-x0) + d*(cy-y0) + ty).
C13_RelativeCornerTransformed ==
    fnRes.fn = "quadVertices"
    => \A k \in 1..4 :
          LET in == fnRes.in
              rx == QuadCorner(k)[1] - in[1]
              ry == QuadCorner(k)[2] - in[2]
          IN  /\ QuadVertex(k)[1] = in[5] * rx + in[6] * ry + in[9]
              /\ QuadVertex(k)[2] = in[7] * rx + in[8] * ry + in[10]

\* quadVertices has returned the quad of a rectangle away from the origin
\* under a transform with four different elements and a translation.
C13_Witness ==
    /\ fnRes.fn = "quadVertices"
    /\ SubSeq(fnRes.in, 1, 4) = <<1, 2, 3, 5>>
    /\ SubSeq(fnRes.in, 5, 10) = <<1, 2, 3, 4, 5, 7>>

\* C14: quadVertices returns exactly 4 vertices, 48 floats, in the order
\* top-left, top-right, bottom-left, bottom-right; the source position of
\* each is the untransformed corner (x0,y0), (x1,y0), (x0,y1), (x1,y1); all
\* four carry the clamp bounds (x0, y0, x1, y1) and the same color.
C14_QuadLayout ==
    fnRes.fn = "quadVertices"
    => /\ Len(fnRes.vs) = 48
       /\ Len(fnRes.vs) = 4 * VertexFloatNum
       /\ fnRes.window.hi - fnRes.window.lo = Len(fnRes.vs)
       /\ \A k \in 1..4 :
             /\ SubSeq(QuadVertex(k), 3, 4) = QuadCorner(k)
             /\ SubSeq(QuadVertex(k), 5, 8) = SubSeq(fnRes.in, 1, 4)
             /\ SubSeq(QuadVertex(k), 9, 12) = SubSeq(fnRes.in, 11, 14)

\* quadVertices has returned the quad of a rectangle away from the origin
\* with distinct corners, under a transform that is not the identity and a
\* color whose channels differ.
C14_Witness ==
    /\ fnRes.fn = "quadVertices"
    /\ SubSeq(fnRes.in, 1, 4) = <<1, 2, 3, 5>>
    /\ SubSeq(fnRes.in, 5, 8) = <<1, 2, 3, 4>>
    /\ SubSeq(fnRes.in, 11, 14) = <<1, 2, 3, 4>>
    /\ fnRes.window.lo > 0

\* Whether the call fnRes, if it is mipmapLevelForDownscale(det), returned level.
DownscaleReturns(det, level) ==
    (fnRes.fn = "mipmapLevelForDownscale" /\ fnRes.in = det)
    => (~fnRes.panicked /\ fnRes.level = level)

\* C15 as stated: mipmapLevelForDownscale returns 0 for a determinant of 1.0,
\* 1 for 0.2, 2 for 0.05 and 3 for 0.003.
C15_LevelsAsStated ==
    /\ DownscaleReturns(<<1, 1>>, 0)
    /\ DownscaleReturns(<<1, 5>>, 1)
    /\ DownscaleReturns(<<1, 20>>, 2)
    /\ DownscaleReturns(<<3, 1000>>, 3)

\* C15, amended: mipmapLevelForDownscale returns 0 for a determinant of 1.0,
\* 1 for 0.2, 2 for 0.05 and 4 for 0.003, and the same for the negated
\* determinants.
C15_Levels ==
    /\ DownscaleReturns(<<1, 1>>, 0)
    /\ DownscaleReturns(<<1, 5>>, 1)
    /\ DownscaleReturns(<<1, 20>>, 2)
    /\ DownscaleReturns(<<3, 1000>>, 4)
    /\ DownscaleReturns(<<-1, 5>>, 1)
    /\ DownscaleReturns(<<-3, 1000>>, 4)

\* mipmapLevelForDownscale has returned for the determinant 0.003.
C15_Witness ==
    /\ fnRes.fn = "mipmapLevelForDownscale"
    /\ fnRes.in = <<3, 1000>>
    /\ ~fnRes.panicked
    /\ fnRes.level > 2

RECURSIVE Pow2(_)
Pow2(n) == IF n = 0 THEN 1 ELSE 2 * Pow2(n - 1)

\* Whether the call fnRes, if it is sizeForLevel(w, h, level), returned (rw, rh).
SizeReturns(w, h, level, rw, rh) ==
    (fnRes.fn = "sizeForLevel" /\ fnRes.in = <<w, h, level>>)
    => fnRes.size = [w |-> rw, h |-> rh]

\* C16: sizeForLevel(w, h, L) is w and h halved L times with integer
\* division for L > 0, (0, 0) as soon as either becomes 0, and w and h
\* doubled |L| times for L <= 0; (100, 50, 2) gives (25, 12), (100, 50, -1)
\* gives (200, 100) and (3, 3, 2) gives (0, 0).
C16_SizeForLevel ==
    /\ fnRes.fn = "sizeForLevel"
       => LET w == fnRes.in[1]
              h == fnRes.in[2]
              level == fnRes.in[3]
          IN  IF level > 0
              THEN IF w \div Pow2(level) = 0 \/ h \div Pow2(level) = 0
                   THEN fnRes.size = [w |-> 0, h |-> 0]
                   ELSE fnRes.size = [w |-> w \div Pow2(level), h |-> h \div Pow2(level)]
              ELSE fnRes.size = [w |-> w * Pow2(-level), h |-> h * Pow2(-level)]
    /\ SizeReturns(100, 50, 2, 25, 12)
    /\ SizeReturns(100, 50, -1, 200, 100)
    /\ SizeReturns(3, 3, 2, 0, 0)

\* sizeForLevel has returned (0, 0) for a size whose width alone has not
\* reached 0 after the halvings asked for.
C16_Witness ==
    /\ fnRes.fn = "sizeForLevel"
    /\ fnRes.in = <<8, 1, 2>>
    /\ fnRes.size = [w |-> 0, h |-> 0]

\* The determinants of Dets that are neither 0 nor NaN.
C23_Finite == {det \in Dets : ~IsNaN(det) /\ det # FZero}

\* |det| * 4^level.
C23_Times4(det, level) == FMul(FAbs(det), <<Pow2(2 * level), 1>>)

\* C23: for every determinant that is finite and not 0,
\* mipmapLevelForDownscale returns the least level L >= 0 with
\* |det| * 4^L >= 0.25, so that the level does not decrease as |det|
\* shrinks; a determinant of 0 or NaN is refused with a panic.
C23_LeastLevel ==
    fnRes.fn = "mipmapLevelForDownscale"
    => IF fnRes.in \in C23_Finite
       THEN /\ ~fnRes.panicked
            /\ fnRes.level >= 0
            /\ FGe(C23_Times4(fnRes.in, fnRes.level), <<1, 4>>)
            /\ fnRes.level > 0 => FLt(C23_Times4(fnRes.in, fnRes.level - 1), <<1, 4>>)
            /\ \A det \in C23_Finite :
                  FGe(FAbs(fnRes.in), FAbs(det))
                  => MipmapLevelForDownscale(det) >= fnRes.level
       ELSE fnRes.panicked

\* mipmapLevelForDownscale has returned a level above 0 for a negative
\* determinant, the level for a determinant just below it being higher.
C23_Witness ==
    /\ fnRes.fn = "mipmapLevelForDownscale"
    /\ fnRes.in = <<-1, 65536>>
    /\ ~fnRes.panicked
    /\ fnRes.level > 0
    /\ MipmapLevelForDownscale(<<1, 65537>>) > fnRes.level

=============================================================================
